---- MODULE Spec2Model ----
(***************************************************************************)
(* VibeFix: the request pipeline of analyzeBug (generateWithRetry, model   *)
(* fallback, response decoding; src/README.md lines 39-277 hold the        *)
(* service the App imports) and the conversation state machine of App.tsx. *)
(*                                                                         *)
(* Two specifications share the module:                                    *)
(*   SvcSpec  one analyzeBug call, step by step, against an inference      *)
(*            service whose every reply or failure is the environment's    *)
(*            choice;                                                      *)
(*   Spec     the App component: user events interleaved with the          *)
(*            completions of the analyzeBug calls it started.              *)
(*                                                                         *)
(* Texts are sequences of words.  An error message is the sequence of its  *)
(* words, String.includes is word membership, toLowerCase maps each word.  *)
(* Date.now() timestamps of chat entries are display-only and left out.    *)
(***************************************************************************)
EXTENDS Integers, Sequences, FiniteSets, TLC

VARIABLES
    \* ---- one analyzeBug call (SvcSpec) ----
    apiKey,        \* process.env.API_KEY is set
    args,          \* the call's arguments: videoFile, codeContext, history, modelName
    pc,            \* "idle" | "reading" | "inflight" | "backoff" | "done"
    parts,         \* contents.parts built for the request
    phase,         \* "primary" | "fallback": which generateWithRetry call runs
    i,             \* generateWithRetry's loop index
    primaryError,  \* the error caught at line 229, NoError before
    log,           \* every ai.models.generateContent call made, with its outcome
    warns,         \* console.warn lines of generateWithRetry and of the fallback
    thrown,        \* what each generateWithRetry call threw, NoError if nothing
    delays,        \* delays the running generateWithRetry call has scheduled
    fileReads,     \* number of fileToGenerativePart calls
    result,        \* what analyzeBug resolved or rejected with
    \* ---- the App component (Spec) ----
    videoFile, codeContext, step, modelName, state,
    input, shippingStatus,   \* AnalysisResult's local state
    calls,                   \* analyzeBug calls started and not yet completed
    nextId,                  \* number of analyzeBug calls started so far
    sinceReset,              \* handleReset ran and no analysis was started since
    started                  \* the analyzeBug calls made since the last reset

svcVars == <<apiKey, args, pc, parts, phase, i, primaryError, log, warns, thrown,
             delays, fileReads, result>>
appVars == <<videoFile, codeContext, step, modelName, state, input, shippingStatus,
             calls, nextId, sinceReset, started>>
vars == <<svcVars, appVars>>

----------------------------------------------------------------------------
(* Data: reports, chat entries, files                                      *)

Fields == {"bug_summary", "user_sentiment", "file_to_edit", "explanation", "code_patch"}

\* A parsed JSON object seen through the five fields of BugReport: each field
\* holds a string, or JSON null, or a number, or is absent.
Absent == "<absent>"
JsonNull == "<null>"
JsonNumber == "<number>"
FullReport(v) == [f \in Fields |-> v]
NoReport == [f \in Fields |-> Absent]
\* The JSON value null where a report is expected.
NullValue == [f \in Fields |-> "<no object: null>"]
IsStringValue(v) == v \notin {Absent, JsonNull, JsonNumber}

PREMIUM == "gemini-3-pro-preview"
FALLBACK == "gemini-2.5-flash"
Models == {PREMIUM, FALLBACK}

NoFile == [present |-> FALSE, type |-> "", readable |-> FALSE]
Files == [present : {TRUE}, type : {"", "video/webm"}, readable : BOOLEAN]

\* ChatEntry: content is a string (isText) or a BugReport.
UserEntry(text) == [role |-> "user", isText |-> TRUE, text |-> text, report |-> NoReport]
ModelEntry(report) == [role |-> "model", isText |-> FALSE, text |-> "", report |-> report]

----------------------------------------------------------------------------
(* Error messages                                                          *)

NoError == [name |-> "none", message |-> <<>>]
Err(words) == [name |-> "Error", message |-> words]
SyntaxErr(words) == [name |-> "SyntaxError", message |-> words]

ToLowerCase(w) ==
    CASE w = "Quota" -> "quota"
      [] w = "QUOTA" -> "quota"
      [] OTHER -> w

Includes(msg, w) == \E k \in 1..Len(msg) : msg[k] = w
IncludesLower(msg, w) == \E k \in 1..Len(msg) : ToLowerCase(msg[k]) = w

\* Failures of ai.models.generateContent the environment may produce: one per
\* HTTP status the service distinguishes, the quota keyword (capitalised, as
\* in "Quota exceeded") without a status code, and a network failure that
\* names no status.
ErrorMessages ==
    { <<"429">>, <<"Quota">>, <<"500">>, <<"502">>, <<"503">>, <<"504">>,
      <<"400">>, <<"403">>, <<"404">>, <<"fetch">> }

----------------------------------------------------------------------------
(* Reply texts and the response decoder (README.md 247-255)                *)

\* A text is a sequence of tokens: the three-backquote fence, the tag json, whitespace, a
\* JSON object (seen through the five fields) or text that is not JSON, which
\* carries the words of the message JSON.parse will throw on it.
Tok(t, v, m) == [t |-> t, v |-> v, m |-> m]
Fence == Tok("fence", NoReport, <<>>)
JsonTag == Tok("json", NoReport, <<>>)
Ws == Tok("ws", NoReport, <<>>)
Doc(v) == Tok("{}", v, <<>>)
Garbage(m) == Tok("garbage", NoReport, m)
\* the JSON literal null
NullLit == Tok("null", NoReport, <<>>)

IsWs(tok) == tok.t = "ws"

RECURSIVE TrimStart(_)
TrimStart(s) == IF Len(s) > 0 /\ IsWs(s[1]) THEN TrimStart(Tail(s)) ELSE s

RECURSIVE TrimEnd(_)
TrimEnd(s) ==
    IF Len(s) > 0 /\ IsWs(s[Len(s)]) THEN TrimEnd(SubSeq(s, 1, Len(s) - 1)) ELSE s

Trim(s) == TrimEnd(TrimStart(s))

StartsWith(s, tok) == Len(s) > 0 /\ s[1] = tok

\* line 252, first replace: a leading fence, an optional json tag, whitespace
ReplaceLeadingFence(s) ==
    IF StartsWith(s, Fence)
    THEN LET r == Tail(s)
         IN  TrimStart(IF StartsWith(r, JsonTag) THEN Tail(r) ELSE r)
    ELSE s

\* line 252, second replace: whitespace and a fence at the very end
ReplaceTrailingFence(s) ==
    IF Len(s) > 0 /\ s[Len(s)] = Fence
    THEN TrimEnd(SubSeq(s, 1, Len(s) - 1))
    ELSE s

\* The reply is parsed as received, fences included.
CleanResultTextSkipped(text) == text

\* lines 251-253
CleanResultText(text) ==
    IF StartsWith(Trim(text), Fence)
    THEN ReplaceTrailingFence(ReplaceLeadingFence(text))
    ELSE text

\* JSON.parse: one JSON value with optional whitespace around it; anything
\* else throws a SyntaxError.
JSONParse(s) ==
    LET t == Trim(s)
    IN  IF Len(t) = 1 /\ t[1].t = "{}"
        THEN [ok |-> TRUE, value |-> t[1].v, error |-> NoError]
        ELSE IF Len(t) = 1 /\ t[1] = NullLit
        THEN [ok |-> TRUE, value |-> NullValue, error |-> NoError]
        ELSE [ok |-> FALSE, value |-> NoReport,
              error |-> SyntaxErr(IF Len(t) = 0 THEN <<"Unexpected", "end">>
                                  ELSE IF t[1].t = "garbage" THEN t[1].m
                                  ELSE <<"Unexpected", "token">>)]

\* JSON.stringify of a report is the JSON object text that parses back to it.
JSONStringify(report) == IF report = NullValue THEN NullLit ELSE Doc(report)

----------------------------------------------------------------------------
(* Prompt assembly (README.md 175-221)                                     *)

Line(k, text, json) == [k |-> k, text |-> text, json |-> json]
NO_VIDEO_DIRECTIVE == "No video was provided. Please analyze this code for bugs, logic errors, or styling issues."
VIDEO_DIRECTIVE == "Please analyze the attached video and this code to find the bug and provide a fix."

\* A forEach that serializes the user entries alone.
HistoryLinesUsersOnly(h) ==
    LET us == SelectSeq(h, LAMBDA e : e.role = "user")
    IN  [k \in 1..Len(us) |-> Line("User:", us[k].text, Ws)]

\* history.forEach(...), lines 202-210
RECURSIVE HistoryLines(_)
HistoryLines(h) ==
    IF h = <<>> THEN <<>>
    ELSE LET e == h[1]
             line == IF e.role = "user" /\ e.isText
                       THEN <<Line("User:", e.text, Ws)>>
                     ELSE IF e.role = "model"
                       THEN <<Line("VibeFix:", IF e.isText THEN e.text ELSE "",
                                   IF e.isText THEN Ws ELSE JSONStringify(e.report))>>
                     ELSE <<>>
         IN  line \o HistoryLines(Tail(h))

PromptText(code, hasVideo, h) ==
    <<Line("code", code, Ws)>>
    \o <<Line("directive", IF hasVideo THEN VIDEO_DIRECTIVE ELSE NO_VIDEO_DIRECTIVE, Ws)>>
    \o (IF Len(h) > 0
        THEN <<Line("--- Conversation History ---", "", Ws)>> \o HistoryLines(h)
             \o <<Line("User's Latest Feedback:",
                       "Please refine the fix based on the above history.", Ws)>>
        ELSE <<>>)

\* fileToGenerativePart's result, lines 57-62
DEFAULT_MIME == "video/mp4"
VideoPart(file) ==
    [kind |-> "inlineData", mimeType |-> IF file.type = "" THEN DEFAULT_MIME ELSE file.type,
     data |-> "base64", text |-> <<>>]
TextPart(prompt) == [kind |-> "text", mimeType |-> "", data |-> "", text |-> prompt]

CONFIG == [systemInstruction |-> "SYSTEM_INSTRUCTION",
           responseMimeType |-> "application/json",
           responseSchema |-> "RESPONSE_SCHEMA"]

----------------------------------------------------------------------------
(* generateWithRetry and the fallback policy                               *)

RETRIES == 3

\* line 143
IsQuota(msg) == Includes(msg, "429") \/ IncludesLower(msg, "quota")
\* line 144
IsServer(msg) == Includes(msg, "503") \/ Includes(msg, "500")
\* Every failure is retried while attempts remain.
ShouldRetryAnyError(msg, idx, retries) == idx < retries - 1

\* One attempt more than the bound allows.
ShouldRetryOnceMore(msg, idx, retries) == (IsQuota(msg) \/ IsServer(msg)) /\ idx < retries

\* line 146
ShouldRetry(msg, idx, retries) == (IsQuota(msg) \/ IsServer(msg)) /\ idx < retries - 1

\* A delay that does not double.
BackoffDelayConstant(idx, jitter) == 1000 + jitter

\* line 148; jitter is Math.random() * 500
BackoffDelay(idx, jitter) == (2 ^ idx) * 1000 + jitter
Jitters == {0, 499}

\* The fallback is tried whatever model was requested.
ShouldFallbackAnyModel(model, msg) == IsQuota(msg)
\* The requested model is compared with a name the select never yields.
ShouldFallbackWrongName(model, msg) == model = "gemini-3-pro" /\ IsQuota(msg)

\* line 233
ShouldFallback(model, msg) == model = PREMIUM /\ IsQuota(msg)

\* The fallback's error is rethrown instead of the primary's.
FallbackRethrowsFallbackError(primary, fallbackError) == fallbackError

\* line 240
FallbackRethrow(primary, fallbackError) == primary

\* A catch that rethrows the message as it is.
AnnotateNothing(error, model) ==
    Err(IF error.message = <<>> THEN <<"Unknown", "error">> ELSE error.message)

\* the outer catch, lines 257-276
Annotate(error, model) ==
    LET errorMessage == IF error.message = <<>> THEN <<"Unknown", "error">>
                        ELSE error.message
    IN  Err(IF Includes(errorMessage, "404")
              THEN errorMessage \o <<"(Model not found.)">>
            ELSE IF Includes(errorMessage, "400")
              THEN errorMessage \o <<"(Bad Request.)">>
            ELSE IF Includes(errorMessage, "403")
              THEN errorMessage \o <<"(Permission Denied.)">>
            ELSE IF Includes(errorMessage, "429") \/ IncludesLower(errorMessage, "quota")
              THEN errorMessage \o <<"(Quota Exceeded.)">>
            ELSE IF error.name = "SyntaxError"
              THEN <<"Failed to parse JSON response from model.">> \o errorMessage
            ELSE errorMessage)

NoResult == [kind |-> "none", report |-> NoReport, error |-> NoError]
Resolved(report) == [kind |-> "report", report |-> report, error |-> NoError]
Rejected(error) == [kind |-> "error", report |-> NoReport, error |-> error]

\* lines 250-255 and the catch, without the test of line 247
DecodeWithoutEmptyCheck(text, model) ==
    LET parsed == JSONParse(CleanResultText(text))
    IN  IF parsed.ok THEN Resolved(parsed.value)
        ELSE Rejected(Annotate(parsed.error, model))

\* lines 247-255 and the catch that follows them
Decode(text, model) ==
    IF text = <<>>
    THEN Rejected(Annotate(Err(<<"Received", "empty", "response", "from", "Gemini.">>), model))
    ELSE LET parsed == JSONParse(CleanResultText(text))
         IN  IF parsed.ok THEN Resolved(parsed.value)
             ELSE Rejected(Annotate(parsed.error, model))

----------------------------------------------------------------------------
(* The environment of one analyzeBug call                                  *)

SAMPLE_CODE == "const x = 1"

Histories ==
    { <<>>,
      <<UserEntry("Analyze this code."), ModelEntry(FullReport("a")),
        UserEntry("make it red")>>,
      <<UserEntry("Analyze this bug with the attached video."),
        ModelEntry(FullReport("a")), UserEntry("make it red"),
        UserEntry("make it blue"), ModelEntry(FullReport("b")),
        UserEntry("make it green")>> }

\* JSON objects a reply may hold: complete reports, reports lacking one field,
\* holding null or a number in one, and the empty object.
CompleteDocs == {FullReport("a"), FullReport("b")}
PartialDocs ==
    {[FullReport("a") EXCEPT ![f] = Absent] : f \in Fields}
    \cup {[FullReport("a") EXCEPT !["explanation"] = JsonNull],
          [FullReport("a") EXCEPT !["code_patch"] = JsonNumber],
          NoReport}
Payloads ==
    {Doc(v) : v \in CompleteDocs \cup PartialDocs}
    \cup {Garbage(<<"Unexpected", "token">>),
          Garbage(<<"Unexpected", "token", "at", "position", "404">>),
          NullLit}

\* response.text: empty or undefined (both falsy), a bare payload, a payload in
\* a json fence, and the other fence layouts around one complete report.
ReplyTexts ==
    {<<>>}
    \cup {<<p>> : p \in Payloads}
    \cup {<<Fence, JsonTag, Ws, p, Ws, Fence>> :
            p \in {Doc(FullReport("a")), Doc(FullReport("b")), Doc(NoReport),
                   Garbage(<<"Unexpected", "token">>)}}
    \cup {<<Fence, Ws, Doc(FullReport("a")), Ws, Fence>>,
          <<Fence, Doc(FullReport("a")), Fence>>,
          <<Ws, Fence, JsonTag, Ws, Doc(FullReport("a")), Ws, Fence>>,
          <<Fence, JsonTag, Ws, Doc(FullReport("a")), Ws, Fence, Ws>>}

\* read is the rejection of fileToGenerativePart, primary and fallback the
\* errors the two generateWithRetry calls threw.
NoThrow == [primary |-> NoError, fallback |-> NoError, read |-> NoError]

Entry(ph, model, attempt, ps) ==
    [phase |-> ph, model |-> model, attempt |-> attempt, contents |-> ps,
     config |-> CONFIG, outcome |-> "pending", error |-> NoError, text |-> <<>>]

\* The entry of the call in flight is the last one.
Settle(l, outcome, error, text) ==
    [l EXCEPT ![Len(l)] = [@ EXCEPT !.outcome = outcome, !.error = error, !.text = text]]

\* AnalysisState: error is the message's words, << >> for null; latestReport
\* is null exactly when hasReport is false.
InitialState ==
    [isLoading |-> FALSE, error |-> <<>>, history |-> <<>>,
     hasReport |-> FALSE, latestReport |-> NoReport]

\* App.tsx lines 9-20 and AnalysisResult.tsx lines 13-17
AppIdle ==
    /\ videoFile = NoFile
    /\ codeContext = ""
    /\ step = "UPLOAD"
    /\ modelName = PREMIUM
    /\ state = InitialState
    /\ input = ""
    /\ shippingStatus = "idle"
    /\ calls = {}
    /\ nextId = 0
    /\ sinceReset = FALSE
    /\ started = <<>>

SvcIdle ==
    /\ pc = "idle"
    /\ parts = <<>>
    /\ phase = "primary"
    /\ i = 0
    /\ primaryError = NoError
    /\ log = <<>>
    /\ warns = <<>>
    /\ thrown = NoThrow
    /\ delays = <<>>
    /\ fileReads = 0
    /\ result = NoResult

\* The (videoFile, history) pairs analyzeBug is called with.
Attachments ==
    ({NoFile} \X Histories)
    \cup {<<[present |-> TRUE, type |-> "video/webm", readable |-> TRUE], <<>>>>}
    \cup {<<[present |-> TRUE, type |-> "", readable |-> TRUE], h>> :
            h \in Histories \ {<<>>}}
    \cup {<<[present |-> TRUE, type |-> "video/webm", readable |-> FALSE], <<>>>>}

SvcInit ==
    /\ apiKey \in BOOLEAN
    /\ \E a \in Attachments, m \in Models :
         args = [videoFile |-> a[1], codeContext |-> SAMPLE_CODE,
                 history |-> a[2], modelName |-> m]
    /\ SvcIdle
    /\ AppIdle

----------------------------------------------------------------------------
(* analyzeBug, one step per resumption of the async function               *)

\* lines 186-221 and the first generateContent call of line 228
BuildAndDispatch(videoParts) ==
    LET ps == videoParts
              \o <<TextPart(PromptText(args.codeContext, args.videoFile.present,
                                       args.history))>>
    IN  /\ parts' = ps
        /\ log' = Append(log, Entry("primary", args.modelName, 1, ps))
        /\ pc' = "inflight"

\* if (!apiKey), line 169
MissingKeyUnchecked(key) == FALSE

MissingKey(key) == ~key

\* if (videoFile), line 177: the file is read on every call that is given one,
\* whatever the history
WillReadFirstCallOnly(file, history) == file.present /\ history = <<>>

WillRead(file, history) == file.present

\* the rejections of fileToGenerativePart (lines 50 and 64)
ReadErrors == {<<"Failed", "to", "read", "file">>, <<"File", "reading", "failed:">>}

\* new Error of line 182, built from e.message
MediaReadErrorWithoutCause(cause) == Err(<<"Failed", "to", "process", "video", "file:">>)

MediaReadError(cause) == Err(<<"Failed", "to", "process", "video", "file:">> \o cause)

\* lines 160-184: the key check, then the file read or, with no file, the request
Start ==
    /\ pc = "idle"
    /\ IF MissingKey(apiKey)
       THEN /\ result' = Rejected(Err(<<"API", "Key", "is", "missing.">>))
            /\ pc' = "done"
            /\ UNCHANGED <<parts, log, fileReads>>
       ELSE IF WillRead(args.videoFile, args.history)
       THEN /\ pc' = "reading"
            /\ fileReads' = fileReads + 1
            /\ UNCHANGED <<parts, log, result>>
       ELSE /\ BuildAndDispatch(<<>>)
            /\ UNCHANGED <<fileReads, result>>
    /\ UNCHANGED <<apiKey, args, phase, i, primaryError, warns, thrown, delays, appVars>>

\* fileToGenerativePart settles (lines 43-67), analyzeBug resumes at line 179
ReadSucceeds ==
    /\ pc = "reading"
    /\ args.videoFile.readable
    /\ BuildAndDispatch(<<VideoPart(args.videoFile)>>)
    /\ UNCHANGED <<apiKey, args, phase, i, primaryError, warns, thrown, delays,
                   fileReads, result, appVars>>

ReadFails ==
    /\ pc = "reading"
    /\ ~args.videoFile.readable
    /\ \E cause \in ReadErrors :
         /\ thrown' = [thrown EXCEPT !.read = Err(cause)]
         /\ result' = Rejected(MediaReadError(cause))
    /\ pc' = "done"
    /\ UNCHANGED <<apiKey, args, parts, phase, i, primaryError, log, warns,
                   delays, fileReads, appVars>>

\* generateContent resolves: generateWithRetry returns (line 133), analyzeBug
\* decodes the reply (lines 247-255)
DispatchSucceeds ==
    /\ pc = "inflight"
    /\ \E text \in ReplyTexts :
         /\ log' = Settle(log, "ok", NoError, text)
         /\ result' = Decode(text, args.modelName)
    /\ delays' = <<>>
    /\ pc' = "done"
    /\ UNCHANGED <<apiKey, args, parts, phase, i, primaryError, warns, thrown,
                   fileReads, appVars>>

\* The errors caught so far by the generateWithRetry call of phase ph.
AttemptErrors(l, ph) ==
    LET es == SelectSeq(l, LAMBDA e : e.phase = ph /\ e.outcome = "error")
    IN  [k \in 1..Len(es) |-> es[k].error]

\* The first error caught is thrown instead of the current one.
ThrownFirst(errors) == errors[1]

\* throw error, line 154: the error just caught
Thrown(errors) == errors[Len(errors)]

\* generateContent rejects: the catch of lines 138-155, and when it rethrows,
\* the fallback decision of lines 229-245 and the outer catch
DispatchFails ==
    /\ pc = "inflight"
    /\ \E m \in ErrorMessages :
         LET caught == Err(m)
             settled == Settle(log, "error", caught, <<>>)
             error == Thrown(AttemptErrors(settled, phase))
         IN  IF ShouldRetry(m, i, RETRIES)
             THEN /\ warns' = Append(warns,
                        [attempt |-> i + 1, model |-> log[Len(log)].model,
                         class |-> IF IsQuota(m) THEN "Quota" ELSE "Server"])
                  /\ \E jitter \in Jitters :
                       delays' = Append(delays, BackoffDelay(i, jitter))
                  /\ log' = settled
                  /\ pc' = "backoff"
                  /\ UNCHANGED <<phase, i, primaryError, thrown, result>>
             ELSE IF phase = "primary" /\ ShouldFallback(args.modelName, error.message)
             THEN /\ thrown' = [thrown EXCEPT !.primary = error]
                  /\ primaryError' = error
                  /\ warns' = Append(warns,
                        [attempt |-> 0, model |-> FALLBACK, class |-> "Fallback"])
                  /\ phase' = "fallback"
                  /\ i' = 0
                  /\ log' = Append(settled, Entry("fallback", FALLBACK, 1, parts))
                  /\ delays' = <<>>
                  /\ pc' = "inflight"
                  /\ UNCHANGED result
             ELSE /\ thrown' = [thrown EXCEPT ![phase] = error]
                  /\ primaryError' = IF phase = "primary" THEN error ELSE primaryError
                  /\ result' = Rejected(Annotate(
                        IF phase = "primary" THEN error
                        ELSE FallbackRethrow(primaryError, error), args.modelName))
                  /\ log' = settled
                  /\ delays' = <<>>
                  /\ pc' = "done"
                  /\ UNCHANGED <<phase, i, warns>>
    /\ UNCHANGED <<apiKey, args, parts, fileReads, appVars>>

\* the setTimeout of line 150 fires: the loop continues with the next attempt
TimerFires ==
    /\ pc = "backoff"
    /\ i' = i + 1
    /\ log' = Append(log, Entry(phase, log[Len(log)].model, i + 2, parts))
    /\ pc' = "inflight"
    /\ UNCHANGED <<apiKey, args, parts, phase, primaryError, warns, thrown,
                   delays, fileReads, result, appVars>>

SvcNext ==
    \/ Start
    \/ ReadSucceeds
    \/ ReadFails
    \/ DispatchSucceeds
    \/ DispatchFails
    \/ TimerFires

SvcSpec == SvcInit /\ [][SvcNext]_vars

\* Every awaited operation settles: the file read, each generateContent call
\* and each setTimeout; analyzeBug itself runs when it is called.
SvcFairness ==
    /\ WF_vars(Start)
    /\ WF_vars(ReadSucceeds \/ ReadFails)
    /\ WF_vars(DispatchSucceeds \/ DispatchFails)
    /\ WF_vars(TimerFires)

SvcLiveSpec == SvcSpec /\ SvcFairness

----------------------------------------------------------------------------
(* The App component (App.tsx) and the chat form (AnalysisResult.tsx)      *)

MaxCalls == 3

VIDEO_PROMPT == "Analyze this bug with the attached video."
CODE_PROMPT == "Analyze this code."

AppFiles == {[present |-> TRUE, type |-> "video/webm", readable |-> TRUE]}
CodeTexts == {"", "  ", SAMPLE_CODE}
InputTexts == {"", "make it red", "Ship it"}

\* String.trim() of the texts above
TrimText(t) == IF t = "  " THEN "" ELSE t
\* input.toLowerCase().includes('ship it') || ...includes('shipit'), line 68
IsShipIt(t) == t = "Ship it"

\* What an analyzeBug call may resolve with, a complete report or, for the
\* reply text null, the value null (JSON.parse result cast to BugReport), and
\* the messages it may reject with: the outer catch's result for a failed
\* request or an undecodable reply.
CallReports == CompleteDocs \cup {NullValue}
CallErrors ==
    {Annotate(Err(<<"429">>), PREMIUM).message,
     Annotate(SyntaxErr(<<"Unexpected", "token">>), PREMIUM).message}

\* AnalysisResult is rendered (App.tsx line 221); unmounting drops its state.
Mounted(st, s) == st = "RESULTS" /\ s.hasReport

Render(st, s, inp, ship) ==
    /\ step' = st
    /\ state' = s
    /\ input' = IF Mounted(st, s) THEN inp ELSE ""
    /\ shippingStatus' = IF Mounted(st, s) THEN ship ELSE "idle"

\* A pending analyzeBug(videoFile, codeContext, history, modelName) call and the
\* history its continuation has captured (initialHistory or currentHistory).
\* codeContext and modelName are passed as they stand; no continuation reads
\* them, and the record leaves them out.  stale records that handleReset ran
\* after the call was started: the call belongs to a session that was reset.
\* invoked keeps what the handler saw when it was invoked: the history, the
\* latest report and the chat input.
Call(kind, h, base) ==
    [id |-> nextId, kind |-> kind, videoFile |-> videoFile, history |-> h,
     base |-> base, stale |-> FALSE,
     invoked |-> [history |-> state.history, latestReport |-> state.latestReport,
                  input |-> input]]

\* What a call analyzeBug(videoFile, codeContext, h, modelName) is given and
\* how often it calls fileToGenerativePart (README.md lines 167-180).
Started(kind, h) ==
    [kind |-> kind, videoFile |-> videoFile,
     reads |-> IF ~MissingKey(apiKey) /\ WillRead(videoFile, h) THEN 1 ELSE 0]

\* initialHistory of handleAnalyze (App.tsx lines 33-35)
InitialHistoryEmpty(file) == <<>>

InitialHistory(file) ==
    <<UserEntry(IF file.present THEN VIDEO_PROMPT ELSE CODE_PROMPT)>>

\* currentHistory of handleRefine (App.tsx line 68)
CurrentHistoryWithoutFeedback(h, feedback) == h

CurrentHistory(h, feedback) == Append(h, UserEntry(feedback))

\* the state stored when a call resolves (App.tsx lines 44-49 and 79-84)
SuccessState(newHistory, report) ==
    [isLoading |-> FALSE, error |-> <<>>, history |-> newHistory,
     hasReport |-> report # NullValue,
     latestReport |-> IF report = NullValue THEN NoReport ELSE report]

\* UploadZone onFileSelect (App.tsx line 163), shown at step UPLOAD
SelectFile ==
    /\ step = "UPLOAD"
    /\ \E f \in AppFiles : videoFile' = f
    /\ UNCHANGED <<codeContext, step, modelName, state, input, shippingStatus, calls,
                   nextId, sinceReset, started,
                   svcVars>>

\* CodeInput setCode (line 176), shown at step UPLOAD
SetCode ==
    /\ step = "UPLOAD"
    /\ \E c \in CodeTexts : codeContext' = c
    /\ UNCHANGED <<videoFile, step, modelName, state, input, shippingStatus, calls,
                   nextId, sinceReset, started,
                   svcVars>>

\* the model select (lines 121-130), disabled unless step is UPLOAD
SetModelName ==
    /\ step = "UPLOAD"
    /\ \E m \in Models : modelName' = m
    /\ UNCHANGED <<videoFile, codeContext, step, state, input, shippingStatus, calls,
                   nextId, sinceReset, started,
                   svcVars>>

\* handleAnalyze up to its await (lines 22-37); the button is shown at step
\* UPLOAD and disabled while the code is blank
HandleAnalyze ==
    /\ step = "UPLOAD"
    /\ TrimText(codeContext) # ""
    /\ nextId < MaxCalls
    /\ Render("ANALYZING", [state EXCEPT !.isLoading = TRUE, !.error = <<>>],
              input, shippingStatus)
    /\ calls' = calls \cup
         {Call("analyze", <<>>, InitialHistory(videoFile))}
    /\ started' = Append(started, Started("analyze", <<>>))
    /\ nextId' = nextId + 1
    /\ sinceReset' = FALSE
    /\ UNCHANGED <<videoFile, codeContext, modelName, svcVars>>

\* handleAnalyze after its await resolves (lines 39-50)
AnalyzeResolves ==
    \E c \in calls, report \in CallReports :
      /\ c.kind = "analyze"
      /\ Render("RESULTS",
                SuccessState(Append(c.base, ModelEntry(report)), report),
                input, shippingStatus)
      /\ calls' = calls \ {c}
      /\ UNCHANGED <<videoFile, codeContext, modelName, nextId, sinceReset, started,
                   svcVars>>

\* handleAnalyze's catch (lines 52-60)
AnalyzeRejects ==
    \E c \in calls :
      \E message \in CallErrors :
        /\ c.kind = "analyze"
        /\ Render("UPLOAD", [state EXCEPT !.isLoading = FALSE, !.error = message],
                  input, shippingStatus)
        /\ calls' = calls \ {c}
        /\ UNCHANGED <<videoFile, codeContext, modelName, nextId, sinceReset, started,
                   svcVars>>

\* the chat input's onChange; the field is disabled while refining or shipping
TypeInput ==
    /\ Mounted(step, state)
    /\ ~state.isLoading
    /\ shippingStatus = "idle"
    /\ \E t \in InputTexts : input' = t
    /\ UNCHANGED <<videoFile, codeContext, step, modelName, state, shippingStatus,
                   calls, nextId, sinceReset, started,
                   svcVars>>

\* handleSubmit (AnalysisResult.tsx lines 63-76) calling handleRefine up to
\* its await (App.tsx lines 63-72), or starting the shipping animation
HandleSubmit ==
    /\ Mounted(step, state)
    /\ TrimText(input) # ""
    /\ ~state.isLoading
    /\ shippingStatus = "idle"
    /\ IF IsShipIt(input)
       THEN /\ Render(step, state, "", "shipping")
            /\ UNCHANGED <<calls, nextId, started>>
       ELSE /\ nextId < MaxCalls
            /\ state.hasReport
            /\ LET currentHistory == CurrentHistory(state.history, input)
               IN  /\ Render(step,
                             [state EXCEPT !.history = currentHistory, !.isLoading = TRUE],
                             "", shippingStatus)
                   /\ calls' = calls \cup {Call("refine", currentHistory, currentHistory)}
                   /\ started' = Append(started, Started("refine", currentHistory))
            /\ nextId' = nextId + 1
    /\ UNCHANGED <<videoFile, codeContext, modelName, sinceReset, svcVars>>

\* the last timer of triggerShippingSequence (AnalysisResult.tsx lines 54-60)
ShippingDone ==
    /\ Mounted(step, state)
    /\ shippingStatus = "shipping"
    /\ shippingStatus' = "shipped"
    /\ UNCHANGED <<videoFile, codeContext, step, modelName, state, input, calls,
                   nextId, sinceReset, started,
                   svcVars>>

\* handleRefine after its await resolves (lines 74-84)
RefineResolves ==
    \E c \in calls, report \in CallReports :
      /\ c.kind = "refine"
      /\ Render(step,
                SuccessState(Append(c.base, ModelEntry(report)), report),
                input, shippingStatus)
      /\ calls' = calls \ {c}
      /\ UNCHANGED <<videoFile, codeContext, modelName, nextId, sinceReset, started,
                   svcVars>>

\* handleRefine's catch (lines 86-92)
RefineRejects ==
    \E c \in calls :
      \E message \in CallErrors :
        /\ c.kind = "refine"
        /\ Render(step,
                  [state EXCEPT !.isLoading = FALSE,
                                !.error = <<"Failed to refine fix:">> \o message],
                  input, shippingStatus)
        /\ calls' = calls \ {c}
        /\ UNCHANGED <<videoFile, codeContext, modelName, nextId, sinceReset, started,
                   svcVars>>

\* handleReset (lines 95-100): the logo (line 108) at every step, and the New
\* Bug buttons of AnalysisResult
HandleReset ==
    /\ Render("UPLOAD", InitialState, "", "idle")
    /\ videoFile' = NoFile
    /\ codeContext' = ""
    /\ sinceReset' = TRUE
    /\ started' = <<>>
    /\ calls' = {[c EXCEPT !.stale = TRUE] : c \in calls}
    /\ UNCHANGED <<modelName, nextId, svcVars>>

Init ==
    /\ AppIdle
    /\ SvcIdle
    /\ apiKey = TRUE
    /\ args = [videoFile |-> NoFile, codeContext |-> SAMPLE_CODE,
               history |-> <<>>, modelName |-> PREMIUM]

Next ==
    \/ SelectFile
    \/ SetCode
    \/ SetModelName
    \/ HandleAnalyze
    \/ AnalyzeResolves
    \/ AnalyzeRejects
    \/ TypeInput
    \/ HandleSubmit
    \/ ShippingDone
    \/ RefineResolves
    \/ RefineRejects
    \/ HandleReset

Spec == Init /\ [][Next]_vars

----------------------------------------------------------------------------
(* Vocabulary of the properties: the failure classes as the specification  *)
(* words them, read off the dispatch log                                   *)

Words(msg) == {msg[k] : k \in 1..Len(msg)}

QuotaClassified(error) ==
    Words(error.message) \cap {"429", "quota", "Quota", "QUOTA"} # {}
ServerFault(error) ==
    Words(error.message) \cap {"500", "502", "503", "504"} # {}
TransientClassified(error) == QuotaClassified(error) \/ ServerFault(error)
PermanentClassified(error) ==
    Words(error.message) \cap {"400", "403", "404"} # {}

PhaseEntries(ph) == SelectSeq(log, LAMBDA e : e.phase = ph)
Failed(e) == e.outcome = "error"
Succeeded(e) == e.outcome = "ok"

\* The generateWithRetry call of phase ph has returned or thrown.
CallOver(ph) ==
    /\ PhaseEntries(ph) # <<>>
    /\ \/ pc = "done"
       \/ ph = "primary" /\ phase = "fallback"

\* Number of leading attempts of a call that failed with a transient error.
RECURSIVE LeadingTransient(_)
LeadingTransient(es) ==
    IF es # <<>> /\ Failed(es[1]) /\ TransientClassified(es[1].error)
    THEN 1 + LeadingTransient(Tail(es))
    ELSE 0

Min(a, b) == IF a < b THEN a ELSE b

RetryWarns(ph) ==
    Len(SelectSeq(warns, LAMBDA w :
          w.class # "Fallback" /\ w.model = PhaseEntries(ph)[1].model))

\* The primary call has thrown; PrimaryFinal is the error of its last attempt.
PrimaryFailed == CallOver("primary") /\ Failed(PhaseEntries("primary")[Len(PhaseEntries("primary"))])
PrimaryFinal == PhaseEntries("primary")[Len(PhaseEntries("primary"))].error
FallbackIssued == PhaseEntries("fallback") # <<>>
LastFallback == PhaseEntries("fallback")[Len(PhaseEntries("fallback"))]

\* The premium model was requested and its three attempts all failed, the
\* last one with a quota error.
PrimaryExhaustedOnQuota ==
    /\ args.modelName = PREMIUM
    /\ PrimaryFailed
    /\ Len(PhaseEntries("primary")) = 3
    /\ QuotaClassified(PrimaryFinal)

IsPrefix(a, b) == Len(a) <= Len(b) /\ SubSeq(b, 1, Len(a)) = a

----------------------------------------------------------------------------
(* Properties of one analyzeBug call, checked under SvcSpec                *)

\* C1: in generateWithRetry (bound 3), when the first k attempts fail with a
\* transient error (quota or server fault) and the next attempt, if made,
\* succeeds, exactly min(k+1, 3) attempts are made; for k <= 2 the reply is
\* returned and k retries are logged, for k >= 3 the call fails after the
\* third attempt.
C1_TransientAttemptCount ==
    \A ph \in {"primary", "fallback"} :
      CallOver(ph) =>
        LET es == PhaseEntries(ph)
            k == LeadingTransient(es)
        IN  (k >= Len(es) \/ Succeeded(es[k + 1])) =>
              /\ Len(es) = Min(k + 1, 3)
              /\ k <= 2 => /\ Succeeded(es[Len(es)])
                           /\ thrown[ph] = NoError
                           /\ RetryWarns(ph) = k
              /\ k >= 3 => /\ Failed(es[Len(es)])
                           /\ thrown[ph] = es[Len(es)].error

\* C2: an attempt that fails with a permanent error (400, 403, 404) is the
\* last attempt of its generateWithRetry call, no backoff follows it and the
\* call throws that error; a call whose first attempt fails permanently has
\* made exactly one dispatch and is rejected with that error.
C2_PermanentFailsOnce ==
    /\ \A j \in 1..Len(log) :
         Failed(log[j]) /\ PermanentClassified(log[j].error) =>
           /\ j = Len(log)
           /\ pc = "done"
           /\ thrown[log[j].phase] = log[j].error
    /\ (Len(log) >= 1 /\ Failed(log[1]) /\ PermanentClassified(log[1].error)) =>
         /\ Len(log) = 1
         /\ result.kind = "error"
         /\ IsPrefix(log[1].error.message, result.error.message)

C2_Witness ==
    /\ pc = "done"
    /\ Len(log) = 1
    /\ Failed(log[1])
    /\ log[1].error.message = <<"403">>
    /\ result.kind = "error"

\* C3: a failed attempt that is not the last allowed one is followed by
\* another attempt exactly when its error is quota-exceeded (429 or the quota
\* keyword) or a server-side fault (any 5xx).
C3_RetryIffTransient ==
    \A j \in 1..Len(log) :
      (Failed(log[j]) /\ log[j].attempt < 3) =>
        ( ( \/ j = Len(log) /\ pc = "backoff"
            \/ j < Len(log) /\ log[j + 1].phase = log[j].phase )
          <=> TransientClassified(log[j].error) )

\* C4: a fallback dispatch (against gemini-2.5-flash) is issued exactly when
\* the requested model is gemini-3-pro-preview and the primary call's final
\* error is quota-classified; otherwise the primary error propagates; the
\* fallback request carries the contents and config of the primary request.
C4_FallbackIffPremiumQuota ==
    /\ FallbackIssued => PrimaryFailed
    /\ PrimaryFailed =>
         /\ FallbackIssued <=> (args.modelName = PREMIUM /\ QuotaClassified(PrimaryFinal))
         /\ ~FallbackIssued =>
              /\ pc = "done"
              /\ result.kind = "error"
              /\ IsPrefix(PrimaryFinal.message, result.error.message)
    /\ \A j \in 1..Len(log) :
         log[j].phase = "fallback" =>
           /\ log[j].model = FALLBACK
           /\ log[j].contents = log[1].contents
           /\ log[j].config = log[1].config

C4_Witness ==
    /\ FallbackIssued
    /\ args.modelName = PREMIUM
    /\ args.videoFile.present
    /\ QuotaClassified(PrimaryFinal)
    /\ pc = "done"

\* C5 as stated: once the premium model's call has exhausted its retries on a
\* quota error, exactly one dispatch attempt is made against the secondary
\* model.
C5_ExactlyOneFallbackAttempt ==
    (pc = "done" /\ PrimaryExhaustedOnQuota) => Len(PhaseEntries("fallback")) = 1

\* C5 amended: once the premium model's call has exhausted its retries on a
\* quota error, exactly one generateWithRetry call runs against the secondary
\* model: it makes between one and three dispatch attempts, numbered in
\* order, each but the last having failed with a quota or 500/503 error.
C5_OneFallbackCall ==
    PrimaryExhaustedOnQuota =>
      LET fs == PhaseEntries("fallback")
      IN  /\ Len(fs) >= 1
          /\ Len(fs) <= 3
          /\ \A j \in 1..Len(fs) :
               /\ fs[j].attempt = j
               /\ fs[j].model = FALLBACK
               /\ j < Len(fs) =>
                    /\ Failed(fs[j])
                    /\ \/ QuotaClassified(fs[j].error)
                       \/ Words(fs[j].error.message) \cap {"500", "503"} # {}

C5_Witness ==
    /\ pc = "done"
    /\ PrimaryExhaustedOnQuota
    /\ Len(PhaseEntries("fallback")) = 3

\* C6: when the fallback call fails too, whatever the class of its error,
\* the error analyzeBug rejects with is built from the primary call's final
\* error and holds no word of the fallback's error.
C6_PrimaryErrorSurfaced ==
    (pc = "done" /\ FallbackIssued /\ Failed(LastFallback)) =>
      /\ result.kind = "error"
      /\ IsPrefix(PrimaryFinal.message, result.error.message)
      /\ \A w \in Words(LastFallback.error.message) \ Words(PrimaryFinal.message) :
           w \notin Words(result.error.message)

C6_Witness ==
    /\ pc = "done"
    /\ FallbackIssued
    /\ Failed(LastFallback)
    /\ PermanentClassified(LastFallback.error)
    /\ PrimaryFinal.message = <<"429">>

\* A reply text that is one JSON object, bare or between a fence that opens
\* the text (with or without the json tag) and a fence that closes it.
ObjectOf(text) ==
    LET inner == IF Len(text) >= 2 /\ text[1] = Fence /\ text[Len(text)] = Fence
                 THEN LET mid == SubSeq(text, 2, Len(text) - 1)
                      IN  IF StartsWith(mid, JsonTag) THEN Tail(mid) ELSE mid
                 ELSE text
        core == SelectSeq(inner, LAMBDA tok : ~IsWs(tok))
    IN  IF Len(core) = 1 /\ core[1].t = "{}" /\ (inner = text => Len(text) = 1)
        THEN <<core[1].v>> ELSE <<>>

\* C7 as stated: when the premium call exhausts its retries on a quota error
\* and the fallback dispatch succeeds, analyzeBug resolves with the report
\* decoded from the fallback's reply and no error reaches the caller.
C7_FallbackSuccessResolves ==
    (pc = "done" /\ PrimaryExhaustedOnQuota /\ Succeeded(LastFallback)) =>
      result.kind = "report"

\* C7 amended: ... and the fallback's reply text is one JSON object, bare or
\* wrapped in fences that open and close the text, analyzeBug resolves with
\* the object of that reply and no error reaches the caller.
C7_FallbackReportResolves ==
    (pc = "done" /\ PrimaryExhaustedOnQuota /\ Succeeded(LastFallback)
       /\ ObjectOf(LastFallback.text) # <<>>) =>
      /\ result.kind = "report"
      /\ result.report = ObjectOf(LastFallback.text)[1]
      /\ result.error = NoError

C7_Witness ==
    /\ pc = "done"
    /\ PrimaryExhaustedOnQuota
    /\ Succeeded(LastFallback)
    /\ LastFallback.text = <<Fence, JsonTag, Ws, Doc(FullReport("b")), Ws, Fence>>
    /\ result.kind = "report"

\* C8: a reply whose text parses as a JSON object that lacks one of the five
\* required fields, or holds null or a non-string in one, makes analyzeBug
\* fail with a decode failure; no partially populated report is returned.
C8_PartialReportRejected ==
    \A j \in 1..Len(log) :
      (pc = "done" /\ Succeeded(log[j]) /\ ObjectOf(log[j].text) # <<>>
         /\ \E f \in Fields : ~IsStringValue(ObjectOf(log[j].text)[1][f])) =>
        result.kind = "error"

----------------------------------------------------------------------------
(* Properties of the App component, checked under Spec                     *)

\* C9: under every interleaving of the user's actions (start analysis,
\* submit a refinement, reset by the logo or New Bug) with call completions,
\* at most one analyzeBug call of the session is in flight.
C9_AtMostOneInFlight == Cardinality({c \in calls : ~c.stale}) <= 1

\* C10: after handleReset, whatever call was in flight at the reset and
\* whenever it completes, the history stays empty and latestReport stays null
\* until the user starts a new analysis.
C10_ResetDiscardsSession ==
    sinceReset => (state.history = <<>> /\ ~state.hasReport)

\* The step on which the continuation of call c runs: c leaves the pending set.
Completes(c) == c \in calls /\ calls' = calls \ {c}

IsStrictPrefix(a, b) == IsPrefix(a, b) /\ Len(a) < Len(b)

\* C11: for every analysis or refinement call with no reset between its
\* start and its completion, successful or failed, the history the handler
\* saw when it was invoked is a strict prefix of the history once the call
\* has completed.
C11_HistoryStrictPrefix ==
    [][\A c \in calls :
         (Completes(c) /\ ~c.stale) =>
           IsStrictPrefix(c.invoked.history, state'.history)]_vars

\* A completion is a failure when it stores an error message.
CompletesFailed(c) == Completes(c) /\ state'.error # <<>>

Alternates(h) == \A k \in 1..(Len(h) - 1) : h[k].role # h[k + 1].role

\* The history a pending refinement was given is the one its handler saw
\* followed by exactly one user entry.
OneUserEntryAppended(c) ==
    /\ Len(c.history) = Len(c.invoked.history) + 1
    /\ IsPrefix(c.invoked.history, c.history)
    /\ c.history[Len(c.history)].role = "user"

\* C12: in every reachable state the history strictly alternates: no two
\* adjacent entries have the same role, and every model call of a refinement
\* is preceded by the append of exactly one user entry.
C12_StrictAlternation ==
    /\ Alternates(state.history)
    /\ \A c \in calls : c.kind = "refine" => OneUserEntryAppended(c)

\* C12 as the code has it: every model entry of the history directly follows
\* a user entry, so no two model entries are adjacent (two user entries are,
\* once a failed refinement is followed by another refinement), and every
\* model call of a refinement is preceded by the append of exactly one user
\* entry.
C12_ModelFollowsUser ==
    /\ \A k \in 1..Len(state.history) :
         state.history[k].role = "model" =>
           (k > 1 /\ state.history[k - 1].role = "user")
    /\ \A c \in calls : c.kind = "refine" => OneUserEntryAppended(c)

\* A refinement failed, the next one succeeded: user, model, user, user, model.
C12_Witness ==
    /\ Len(state.history) = 5
    /\ state.history[3].role = "user"
    /\ state.history[4].role = "user"
    /\ state.history[5].role = "model"
    /\ calls = {}

\* C13: when a refinement call fails, with no reset since it was started,
\* the history after the failure is the pre-refinement history followed by
\* one user entry holding the literal feedback text: no model entry is
\* appended, the feedback entry is the tail, latestReport is still the
\* previous report, and isLoading is false.
C13_FailedRefinementState ==
    [][\A c \in calls :
         (CompletesFailed(c) /\ c.kind = "refine" /\ ~c.stale) =>
           /\ state'.history = Append(c.invoked.history, UserEntry(c.invoked.input))
           /\ state'.history[Len(state'.history)].role = "user"
           /\ state'.hasReport
           /\ state'.latestReport = c.invoked.latestReport
           /\ ~state'.isLoading]_vars

\* C14: in every reachable state where the history is non-empty, its first
\* entry has role user and holds one of the locally generated synthetic
\* prompts, never user-typed feedback and never a report.
C14_FirstEntrySynthetic ==
    state.history # <<>> =>
      /\ state.history[1].role = "user"
      /\ state.history[1].isText
      /\ state.history[1].text \in {VIDEO_PROMPT, CODE_PROMPT}
      /\ state.history[1].text \notin InputTexts
      /\ state.history[1].report = NoReport

\* A session with a video, a report and a stored feedback entry.
C14_Witness ==
    /\ Len(state.history) >= 3
    /\ state.history[1] = UserEntry(VIDEO_PROMPT)
    /\ state.history[2].role = "model"
    /\ state.history[3] = UserEntry("make it red")

----------------------------------------------------------------------------
(* Further properties of one analyzeBug call, checked under SvcSpec        *)

\* C15: when the API key is absent, analyzeBug fails before doing anything
\* else: no dispatch call is made and the media file is not read, for every
\* combination of media, code text, history and model.
C15_NoKeyFailsFirst ==
    (~apiKey /\ pc # "idle") =>
      /\ pc = "done"
      /\ result = Rejected(Err(<<"API", "Key", "is", "missing.">>))
      /\ log = <<>>
      /\ fileReads = 0
      /\ parts = <<>>

\* A refinement call with a media file and no key has failed.
C15_Witness ==
    /\ ~apiKey
    /\ pc = "done"
    /\ args.videoFile.present
    /\ args.history # <<>>
    /\ result.kind = "error"

\* C16: when a media file is supplied and reading it fails, analyzeBug fails
\* with a media-read error carrying the underlying cause, and no dispatch
\* call, primary or fallback, is made for that call.
C16_MediaReadFailure ==
    (apiKey /\ args.videoFile.present /\ ~args.videoFile.readable) =>
      /\ log = <<>>
      /\ pc = "done" =>
           /\ thrown.read # NoError
           /\ result.kind = "error"
           /\ result.error.message =
                <<"Failed", "to", "process", "video", "file:">> \o thrown.read.message

\* The read of the supplied file was rejected and the call has failed.
C16_Witness ==
    /\ apiKey
    /\ args.videoFile.present
    /\ pc = "done"
    /\ fileReads = 1
    /\ thrown.read = Err(<<"File", "reading", "failed:">>)
    /\ result.kind = "error"

EMPTY_RESPONSE == <<"Received", "empty", "response", "from", "Gemini.">>

\* The reply analyzeBug decodes: the text of the last dispatch, which resolved.
Replied == pc = "done" /\ log # <<>> /\ Succeeded(log[Len(log)])
ReplyText == log[Len(log)].text

\* C17: a reply whose text is empty or absent makes analyzeBug fail with the
\* empty-response error; it is never reported as a decode failure, never
\* annotated as a transport failure, and never yields a report.
C17_EmptyReplyRejected ==
    (Replied /\ ReplyText = <<>>) =>
      /\ result.kind = "error"
      /\ result.error.name = "Error"
      /\ result.error.message = EMPTY_RESPONSE

\* The fallback model replied with an empty text.
C17_Witness ==
    /\ Replied
    /\ ReplyText = <<>>
    /\ phase = "fallback"
    /\ result.kind = "error"

Optional(tok) == {<<>>, <<tok>>}

\* The replies that wrap payload p in a fenced block: a leading fence with or
\* without the json tag, p, a trailing fence, with or without whitespace
\* inside and around the block.
FencedForms(p) ==
    {lead \o <<Fence>> \o tag \o ws1 \o <<p>> \o ws2 \o <<Fence>> \o trail :
       lead \in Optional(Ws), tag \in Optional(JsonTag), ws1 \in Optional(Ws),
       ws2 \in Optional(Ws), trail \in Optional(Ws)}

\* C18: for every payload text p, a reply made of a leading fence (plain or
\* tagged json), p and a trailing fence, with or without whitespace around
\* the fenced block, decodes to the same result, the same report or the same
\* failure, as the reply p without fences.
C18_FenceInsensitive ==
    Replied =>
      \A p \in Payloads :
        ReplyText \in FencedForms(p) => result = Decode(<<p>>, args.modelName)

----------------------------------------------------------------------------
(* Further properties of the App component, checked under Spec             *)

RECURSIVE SumReads(_)
SumReads(s) == IF s = <<>> THEN 0 ELSE s[1].reads + SumReads(Tail(s))

\* The calls since the last reset are an initial analysis that was given a
\* media file, followed by n >= 1 refinement calls.
AnalysisThenRefinements ==
    /\ Len(started) >= 2
    /\ started[1].kind = "analyze"
    /\ started[1].videoFile.present
    /\ \A k \in 2..Len(started) : started[k].kind = "refine"

\* C19: within one session with a media file attached, made of an initial
\* analysis followed by n >= 1 refinement calls, the media file is read and
\* base64-encoded once in total, not once per call.
C19_MediaReadOnce == AnalysisThenRefinements => SumReads(started) = 1

\* C19 as the code has it: the media file is read and base64-encoded once
\* per call, n + 1 times in a session of an initial analysis and n
\* refinement calls: every analyzeBug call that is given the file reads it.
C19_MediaReadPerCall ==
    /\ AnalysisThenRefinements => SumReads(started) = Len(started)
    /\ \A k \in 1..Len(started) :
         started[k].reads = IF started[k].videoFile.present THEN 1 ELSE 0

\* An analysis with a video and two refinements: three reads.
C19_Witness ==
    /\ AnalysisThenRefinements
    /\ Len(started) = 3
    /\ SumReads(started) = 3

\* Whether the analysis call that began conversation h was given a media
\* file: handleAnalyze words the first entry by the file it passes on.
BegunWithFile(h) == h # <<>> /\ h[1] = UserEntry(VIDEO_PROMPT)

\* C20: every refinement call of a session passes to analyzeBug the media
\* attachment, the same file or the same absence of a file, that the initial
\* analysis call of the conversation it refines was given, under every
\* interleaving of user actions and call completions.
C20_SameAttachment ==
    \A c \in calls :
      c.kind = "refine" =>
        (c.videoFile.present <=> BegunWithFile(c.history))

\* The continuation of call c that runs is a catch block.
CatchRuns(c) == Completes(c) /\ (AnalyzeRejects \/ RefineRejects)

ModelEntries(h) == SelectSeq(h, LAMBDA e : e.role = "model")

\* C21: after any failed analysis or refinement call (with no reset since it
\* was started), the step is the one shown before the handler ran, UPLOAD for
\* an analysis and RESULTS for a refinement, isLoading is false, error holds
\* a non-empty message, latestReport is unchanged from its value before the
\* call, and no model entry has been added to the history.
C21_FailedCallRestoresState ==
    [][\A c \in calls :
         (CatchRuns(c) /\ ~c.stale) =>
           /\ step' = IF c.kind = "analyze" THEN "UPLOAD" ELSE "RESULTS"
           /\ ~state'.isLoading
           /\ state'.error # <<>>
           /\ state'.latestReport = c.invoked.latestReport
           /\ ModelEntries(state'.history) = ModelEntries(c.invoked.history)]_vars

----------------------------------------------------------------------------
(* Properties of the prompt and of generateWithRetry, checked under SvcSpec *)

\* The text prompt of a dispatch: the text of the last part of its contents.
PromptOf(e) == e.contents[Len(e.contents)].text

\* The lines of a prompt that serialize history entries.
EntryLines(prompt) == SelectSeq(prompt, LAMBDA l : l.k \in {"User:", "VibeFix:"})

\* An entry as the claim has it serialized.
Serialized(e) ==
    IF e.role = "user" THEN [k |-> "User:", text |-> e.text, json |-> Ws]
    ELSE [k |-> "VibeFix:", text |-> "", json |-> Doc(e.report)]

\* A refinement call: the history ends with the new feedback entry.
IsRefinementCall ==
    /\ args.history # <<>>
    /\ args.history[Len(args.history)].role = "user"

\* C22: for every refinement call, the text prompt sent to the model holds
\* every entry of the history, in the original order, user entries as User:
\* lines and model reports in their JSON form, the new feedback text being
\* the last serialized entry; no entry is omitted or reordered.
C22_HistoryReplayed ==
    IsRefinementCall =>
      \A j \in 1..Len(log) :
        LET ls == EntryLines(PromptOf(log[j]))
        IN  /\ Len(ls) = Len(args.history)
            /\ \A k \in 1..Len(ls) : ls[k] = Serialized(args.history[k])
            /\ ls[Len(ls)].text = args.history[Len(args.history)].text

\* The six-entry history was sent to the primary and to the fallback model.
C22_Witness ==
    /\ IsRefinementCall
    /\ Len(args.history) = 6
    /\ pc = "done"
    /\ \E j \in 1..Len(log) : log[j].phase = "fallback"

\* C23: in generateWithRetry the delay before the retry that follows failed
\* attempt k (k = 1, 2) is 2^(k-1) x 1000 ms plus a jitter in [0, 500) ms:
\* the first delay lies in [1000, 1500), the second in [2000, 2500), delays
\* are strictly increasing for every jitter choice, and no delay is waited
\* after the final attempt or before the first.
C23_BackoffDelays ==
    /\ \A k \in 1..Len(delays) :
         /\ (2 ^ (k - 1)) * 1000 <= delays[k]
         /\ delays[k] < (2 ^ (k - 1)) * 1000 + 500
    /\ \A k \in 1..(Len(delays) - 1) : delays[k] < delays[k + 1]
    /\ Len(delays) <= RETRIES - 1
    /\ pc = "inflight" => Len(delays) = i
    /\ pc = "backoff" => (Len(delays) = i + 1 /\ i + 1 < RETRIES)

\* Two delays were waited, the first with the largest jitter and the second
\* with the smallest.
C23_Witness ==
    /\ pc = "inflight"
    /\ i = 2
    /\ delays = <<1499, 2000>>

LastOf(s) == s[Len(s)]

\* C24: whenever generateWithRetry fails, for every sequence of attempt
\* outcomes, transient failures followed by a permanent one included, the
\* error it throws is the error of the last attempt it made, unchanged.
C24_LastErrorThrown ==
    \A ph \in {"primary", "fallback"} :
      /\ (CallOver(ph) /\ Failed(LastOf(PhaseEntries(ph)))) =>
           thrown[ph] = LastOf(PhaseEntries(ph)).error
      /\ thrown[ph] # NoError =>
           (CallOver(ph) /\ Failed(LastOf(PhaseEntries(ph))))

\* Two transient failures, then a permanent one, which is the error thrown.
C24_Witness ==
    /\ pc = "done"
    /\ Len(log) = 3
    /\ log[1].error = Err(<<"429">>)
    /\ log[2].error = Err(<<"503">>)
    /\ log[3].error = Err(<<"403">>)
    /\ thrown.primary = Err(<<"403">>)

PARSE_PREFIX == "Failed to parse JSON response from model."

TransportAnnotations ==
    {"(Model not found.)", "(Bad Request.)", "(Permission Denied.)", "(Quota Exceeded.)"}

\* What JSON.parse makes of the reply analyzeBug decodes.
ParsedReply == JSONParse(CleanResultText(ReplyText))

\* C25: a reply whose text is present but not parseable makes analyzeBug fail
\* with a decode error whose message is the prefix 'Failed to parse JSON
\* response from model. ' followed by the parser's message, for every parser
\* message; a decode failure never receives a transport annotation.
C25_DecodeErrorPrefixed ==
    (Replied /\ ReplyText # <<>> /\ ~ParsedReply.ok) =>
      /\ result.kind = "error"
      /\ result.error.message = <<PARSE_PREFIX>> \o ParsedReply.error.message
      /\ \A w \in TransportAnnotations : ~Includes(result.error.message, w)

\* The likely-cause annotation of each permanent class.
AnnotationOf(code) ==
    CASE code = "400" -> "(Bad Request.)"
      [] code = "403" -> "(Permission Denied.)"
      [] code = "404" -> "(Model not found.)"

\* generateWithRetry threw and analyzeBug rethrows its error: the error of
\* the primary call, with or without a failed fallback.
ServiceErrorSurfaced ==
    /\ pc = "done"
    /\ log # <<>>
    /\ Failed(LastOf(log))
    /\ result.kind = "error"

\* C26: when analyzeBug fails with a permanent service error, the message
\* surfaced is the original message followed by exactly one likely-cause
\* annotation, the one of the error's class: the media format and size hint
\* for 400, the credential hint for 403, the model access hint for 404.
C26_PermanentAnnotated ==
    \A code \in {"400", "403", "404"} :
      (ServiceErrorSurfaced /\ Includes(thrown.primary.message, code)) =>
        /\ result.error.message = thrown.primary.message \o <<AnnotationOf(code)>>
        /\ Cardinality({k \in 1..Len(result.error.message) :
                         result.error.message[k] \in TransportAnnotations}) = 1

\* A permission error on the second attempt, after a retried server error.
C26_Witness ==
    /\ ServiceErrorSurfaced
    /\ Len(log) = 2
    /\ thrown.primary = Err(<<"403">>)
    /\ result.error.message = <<"403", "(Permission Denied.)">>

\* At most three dispatches against the requested model, at most three
\* against the fallback model, the fallback ones after all the primary ones.
DispatchesBounded ==
    /\ Len(log) <= 2 * RETRIES
    /\ Len(PhaseEntries("primary")) <= RETRIES
    /\ Len(PhaseEntries("fallback")) <= RETRIES
    /\ \A j \in 1..Len(log) :
         /\ log[j].phase = "primary" => log[j].model = args.modelName
         /\ log[j].phase = "fallback" =>
              /\ log[j].model = FALLBACK
              /\ \A k \in j..Len(log) : log[k].phase = "fallback"

\* C27: every analyzeBug call terminates, resolving or rejecting, provided
\* each dispatch call terminates, and makes at most 6 dispatch calls in all:
\* at most 3 against the requested model and at most 3 against the fallback
\* model, the fallback ones all after the primary ones.
C27_TerminatesWithinSixDispatches ==
    /\ []DispatchesBounded
    /\ <>(pc = "done" /\ result # NoResult)

\* Six dispatches were made and the call has ended.
C27_Witness ==
    /\ pc = "done"
    /\ Len(log) = 6
    /\ result # NoResult

----------------------------------------------------------------------------
(* Further invariants of the App component, checked under Spec             *)

\* C28: in every reachable state of the App, isLoading is true exactly when
\* an analyzeBug call started by handleAnalyze or handleRefine has not yet
\* completed, under all interleavings with handleReset and with completions
\* of other calls.
C28_LoadingIffCallInFlight == state.isLoading <=> calls # {}

\* C29: in every reachable state of the App, latestReport is null if and
\* only if the history contains no model entry, and when it is not null it
\* equals the content of the last model entry of the history; in particular
\* step = RESULTS implies latestReport is not null.
C29_LatestReportIsLastModelEntry ==
    LET ms == ModelEntries(state.history)
    IN  /\ ~state.hasReport <=> ms = <<>>
        /\ ~state.hasReport => state.latestReport = NoReport
        /\ state.hasReport => state.latestReport = LastOf(ms).report
        /\ step = "RESULTS" => state.hasReport

====
